---- MODULE Spec2Model ----
(***************************************************************************)
(* State-machine model of IPCClient (src/ipc/client.py): the connection    *)
(* state machine (connect / disconnect / is_connected), the message        *)
(* listener, the reconnection coordinator and the send path.               *)
(*                                                                         *)
(* Scheduling follows asyncio: one task runs at a time and keeps running   *)
(* until it suspends in an await.  `cur` names the running task; an action *)
(* that resumes a suspended task needs cur = NoTask.  A label such as      *)
(* "c254" is the source line of the await or statement a task is at.       *)
(***************************************************************************)
EXTENDS Integers, Sequences, FiniteSets, TLC

\* ---------------------------------------------------------------- bounds
NumCallers == 2           \* caller tasks that issue connect/disconnect/send
MaxOps == 3               \* caller-issued operations in a run without data frames
MaxOpsFrames == 2         \* caller-issued operations in a run with data frames
MaxSockets == 2           \* successful handshakes in one run
MaxSessions == 2          \* sessions created in one run
MaxConnectors == 2        \* connectors created in one run
MaxReconnTasks == 1       \* reconnection tasks the listeners may schedule
MaxFrames == 2            \* inbound data frames received in one run
MaxDrops == 1             \* times the remote end breaks a connection
MaxAttempts == 2          \* max_reconnect_attempts the client is built with
MaxBackoffAttempts == 6   \* max_reconnect_attempts in the backoff runs
MaxBaseDelay == 64        \* largest reconnect_delay in the backoff runs

\* ------------------------------------------------------ program constants
DefaultReconnectDelay == 5    \* reconnect_delay: int = 5
max_retries == 2              \* _handle_reconnect_and_retry(..., max_retries = 2)
DelayCap == 60                \* min(..., 60)

\* ------------------------------------------------------------- identities
None == 0
NoTask == <<"none", 0>>
Callers == {<<"caller", i>> : i \in 1..NumCallers}
ReconnTasks == {<<"reconnect", i>> : i \in 1..MaxReconnTasks}
Tasks == Callers \cup ReconnTasks
ListenerIds == 1..MaxSockets      \* one listener task per successful handshake
SocketIds == 1..MaxSockets
SessionIds == 1..MaxSessions
ConnectorIds == 1..MaxConnectors

VARIABLES
    _is_connected,     \* self._is_connected
    _is_connecting,    \* self._is_connecting
    _session,          \* self._session: None or a session id
    _websocket,        \* self._websocket: None or a socket id
    _task,             \* self._task: None or a listener index
    _connector,        \* self._connector: None or a connector id
    _metrics,          \* ConnectionMetrics
    _reconnect_lock,   \* asyncio.Lock: [holder, waiters]
    sockets,           \* socket id -> "unborn" | "open" | "broken" | "closed"
    sessions,          \* session id -> "unborn" | "open" | "closed"
    connectors,        \* connector id -> "unborn" | "open" | "closed"
    session_connector, \* session id -> the connector it was created with
    listeners,         \* listener index -> [st, sock, cancel]
    frames,            \* inbound frames in receive order, with their dispatch
    pc,                \* task -> label of the statement it is at
    attempt,           \* task -> loop variable of _attempt_reconnection (0: not in it)
    retry,             \* caller -> loop variable of _handle_reconnect_and_retry
    target,            \* task -> the object its pending await works on
    cur,               \* the task that is running (NoTask: the event loop)
    hist               \* the run: its scenario, the calls made, what they met

clientVars == <<_is_connected, _is_connecting, _session, _websocket, _task, _connector>>
objVars == <<sockets, sessions, connectors, session_connector>>
vars == <<_is_connected, _is_connecting, _session, _websocket, _task, _connector,
          _metrics, _reconnect_lock, sockets, sessions, connectors, session_connector,
          listeners,
          frames, pc, attempt, retry, target, cur, hist>>

\* The runs explored: many caller operations and no data frame, or fewer
\* caller operations and data frames from the remote end.
Scenario(ops, nframes, attempts, delay) ==
    [ops |-> ops, frames |-> nframes,
     max_reconnect_attempts |-> attempts, reconnect_delay |-> delay]

Scenarios ==
    {Scenario(MaxOps, 0, MaxAttempts, DefaultReconnectDelay),
     Scenario(MaxOpsFrames, MaxFrames, MaxAttempts, DefaultReconnectDelay)}

\* ------------------------------------------------------------ pure helpers
Min(a, b) == IF a <= b THEN a ELSE b

RECURSIVE Pow2(_)
Pow2(n) == IF n = 0 THEN 1 ELSE 2 * Pow2(n - 1)

\* line 170: delay = min(self._reconnect_delay * (2 ** (attempt - 1)), 60)
\* (a variant doubles once too often)
BackoffDelay_Early(base, k) == Min(base * Pow2(k), DelayCap)
BackoffDelay(base, k) == Min(base * Pow2(k - 1), DelayCap)

\* lines 348-357: the composite connectivity check
is_connected ==
    /\ _is_connected
    /\ _websocket # None
    /\ sockets[_websocket] # "closed"
    /\ _session # None
    /\ sessions[_session] # "closed"

Fresh(states) == {i \in DOMAIN states : states[i] = "unborn"}
FreshListeners == {i \in DOMAIN listeners : listeners[i].st = "unborn"}
NewId(S) == CHOOSE i \in S : \A j \in S : i <= j

NoCoord == [behind |-> FALSE, ran |-> FALSE, delays |-> <<>>]

NoSend ==
    [mapping |-> FALSE, entryConn |-> FALSE, tx |-> 0, coord |-> 0, firstReset |-> FALSE,
     reconnOK |-> FALSE, retxOK |-> 0, handshakes |-> 0]

InitHist ==
    [scenario |-> Scenario(0, 0, 0, 0), ops |-> 0, drops |-> 0, lastOp |-> "none", lossSince |-> FALSE,
     send |-> [c \in Callers |-> NoSend],
     torn |-> [c \in Callers |-> FALSE], down |-> FALSE,
     coord |-> [t \in Tasks |-> NoCoord]]

\* A new disconnection: no waiting coordinator invocation counts any longer
\* as having arrived during the cycle that handles it.
Uncovered(co) == [t \in DOMAIN co |-> [co[t] EXCEPT !.behind = FALSE]]

\* lines 45-46: the constructor arguments of this client (a variant of the
\* loop of line 168 runs one attempt more)
_max_reconnect_attempts_Plus == hist.scenario.max_reconnect_attempts + 1
_max_reconnect_attempts == hist.scenario.max_reconnect_attempts
_reconnect_delay == hist.scenario.reconnect_delay

InitWith(S) ==
    /\ _is_connected = FALSE
    /\ _is_connecting = FALSE
    /\ _session = None
    /\ _websocket = None
    /\ _task = None
    /\ _connector = None
    /\ _metrics = [connect_attempts |-> 0, last_connect_time |-> None,
                   reconnect_count |-> 0, message_count |-> 0]
    /\ _reconnect_lock = [holder |-> NoTask, waiters |-> <<>>]
    /\ sockets = [i \in SocketIds |-> "unborn"]
    /\ sessions = [i \in SessionIds |-> "unborn"]
    /\ connectors = [i \in ConnectorIds |-> "unborn"]
    /\ session_connector = [i \in SessionIds |-> None]
    /\ listeners = [i \in ListenerIds |-> [st |-> "unborn", sock |-> None, cancel |-> FALSE]]
    /\ frames = <<>>
    /\ pc = [t \in Tasks |-> IF t \in Callers THEN "idle" ELSE "unborn"]
    /\ attempt = [t \in Tasks |-> 0]
    /\ retry = [t \in Callers |-> 0]
    /\ target = [t \in Tasks |-> None]
    /\ cur = NoTask
    /\ hist \in {[InitHist EXCEPT !.scenario = sc] : sc \in S}

Init == InitWith(Scenarios)

\* A caller task issues an operation when it is idle.  Idle callers are
\* interchangeable, so the idle caller of least index issues it.
CanCall(c) ==
    /\ cur = NoTask /\ c \in Callers /\ pc[c] = "idle"
    /\ hist.ops < hist.scenario.ops
    /\ \A d \in Callers : d[2] < c[2] => pc[d] # "idle"

\* ------------------------------------------------------------ connect()
\* Who called connect(): the coordinator's loop (attempt > 0) or a caller.
ConnectReturnLabel(t) == IF attempt[t] > 0 THEN "r176" ELSE "ret_connect"
\* lines 180-181: inside the coordinator the error of connect() is caught (a
\* variant lets it escape to whoever called the coordinator)
ConnectRaiseLabel_Escapes(t) == "raise_connect"
ConnectRaiseLabel(t) == IF attempt[t] > 0 THEN "r180" ELSE "raise_connect"

\* line 232: if self._is_connecting (a variant does not look at the flag)
ConnectInProgress_Ignored == FALSE
ConnectInProgress == _is_connecting

\* line 239: if self._is_connected (a variant does not look at the flag)
AlreadyConnected_Ignored == FALSE
AlreadyConnected == _is_connected

\* line 248: if not self._session or self._session.closed
NeedSession == _session = None \/ sessions[_session] = "closed"

\* lines 232-254: the guards, the Connecting flag, the session, up to the
\* await of ws_connect or to the return of line 241.
ConnectEntry(t) ==
    /\ cur = t /\ pc[t] = "c232"
    /\ IF ConnectInProgress
       THEN /\ pc' = [pc EXCEPT ![t] = "c235"]
            /\ cur' = NoTask
            /\ UNCHANGED <<clientVars, objVars, _metrics, target>>
       ELSE IF AlreadyConnected
       THEN /\ pc' = [pc EXCEPT ![t] = "c241"]
            /\ UNCHANGED <<clientVars, objVars, _metrics, target, cur>>
       ELSE /\ _is_connecting' = TRUE
            /\ _metrics' = [_metrics EXCEPT !.connect_attempts = @ + 1]
            /\ IF NeedSession
               THEN /\ Fresh(sessions) # {}
                    /\ _session' = NewId(Fresh(sessions))
                    /\ sessions' = [sessions EXCEPT ![_session'] = "open"]
                    /\ IF _connector = None          \* line 77
                       THEN /\ Fresh(connectors) # {}
                            /\ _connector' = NewId(Fresh(connectors))
                            /\ connectors' = [connectors EXCEPT ![_connector'] = "open"]
                       ELSE UNCHANGED <<_connector, connectors>>
                    /\ session_connector' = [session_connector EXCEPT ![_session'] = _connector']
               ELSE UNCHANGED <<_session, sessions, _connector, connectors, session_connector>>
            /\ target' = [target EXCEPT ![t] = _session']
            /\ pc' = [pc EXCEPT ![t] = "c254"]
            /\ cur' = NoTask
            /\ UNCHANGED <<_is_connected, _websocket, _task, sockets>>
    /\ hist' = IF ConnectInProgress \/ AlreadyConnected \/ t \notin Callers \/ attempt[t] = 0
               THEN hist
               ELSE [hist EXCEPT !.send[t].handshakes = @ + 1]
    /\ UNCHANGED <<_reconnect_lock, listeners, frames, attempt, retry>>

\* lines 240-241: already connected, return self
ConnectAlready(t) ==
    /\ cur = t /\ pc[t] = "c241"
    /\ pc' = [pc EXCEPT ![t] = ConnectReturnLabel(t)]
    /\ UNCHANGED <<clientVars, objVars, _metrics, _reconnect_lock, listeners,
                   frames, attempt, retry, target, cur, hist>>

\* lines 235-237: the waiting caller polls until the flag is clear, then
\* returns self.
ConnectWaitDone(t) ==
    /\ cur = NoTask /\ pc[t] = "c235"
    /\ ~_is_connecting
    /\ pc' = [pc EXCEPT ![t] = ConnectReturnLabel(t)]
    /\ cur' = t
    /\ UNCHANGED <<clientVars, objVars, _metrics, _reconnect_lock, listeners,
                   frames, attempt, retry, target, hist>>

\* lines 291-292: finally: self._is_connecting = False, whether the attempt
\* raised or not (a variant clears the flag on the success path only)
ConnectingAfter_SuccessOnly(raised) == raised
ConnectingAfter(raised) == FALSE

\* line 269: time.time(), as a logical clock that ticks with every handshake
\* that succeeds
Now == Cardinality({s \in SocketIds : sockets[s] # "unborn"}) + 1

\* lines 254-269, 291-294: the handshake succeeded.  It can succeed only on
\* a session that is still open and whose connector is still open.
HandshakeOk(t) ==
    /\ cur = NoTask /\ pc[t] = "c254"
    /\ sessions[target[t]] = "open"
    /\ connectors[session_connector[target[t]]] = "open"
    /\ Fresh(sockets) # {} /\ FreshListeners # {}
    /\ LET s == NewId(Fresh(sockets))
           l == NewId(FreshListeners)
       IN  /\ sockets' = [sockets EXCEPT ![s] = "open"]
           /\ _websocket' = s
           /\ listeners' = [listeners EXCEPT ![l] = [st |-> "created", sock |-> None, cancel |-> FALSE]]
           /\ _task' = l
    /\ _is_connected' = TRUE
    /\ _is_connecting' = ConnectingAfter(FALSE)
    /\ pc' = [pc EXCEPT ![t] = ConnectReturnLabel(t)]
    /\ cur' = t
    /\ target' = [target EXCEPT ![t] = None]
    /\ _metrics' = [_metrics EXCEPT !.last_connect_time = Now]
    /\ hist' = [hist EXCEPT !.lastOp = "connect_ok", !.lossSince = FALSE]
    /\ UNCHANGED <<_session, _connector, sessions, connectors, session_connector,
                   _reconnect_lock, frames, attempt, retry>>

\* lines 273-292: the handshake failed (endpoint unreachable, handshake
\* rejected, any other error); the error is raised after the finally block.
HandshakeFail(t) ==
    /\ cur = NoTask /\ pc[t] = "c254"
    /\ _is_connecting' = ConnectingAfter(TRUE)
    /\ pc' = [pc EXCEPT ![t] = ConnectRaiseLabel(t)]
    /\ cur' = t
    /\ target' = [target EXCEPT ![t] = None]
    /\ hist' = [hist EXCEPT !.lastOp = "connect_fail"]
    /\ UNCHANGED <<_is_connected, _session, _websocket, _task, _connector, objVars,
                   _metrics, _reconnect_lock, listeners, frames, attempt, retry>>

\* ------------------------------------------------ _attempt_reconnection()
\* Who called the coordinator: the send path of a caller, or a task the
\* listener created (line 151).
CoordReturnLabel(t) == IF t \in Callers THEN "s218" ELSE "done"
CoordReturnCur(t) == IF t \in Callers THEN t ELSE NoTask

\* asyncio.Lock.acquire() takes the lock at once only when it is free and
\* nobody is queued for it (a variant enters without the lock).
LockFree_Ignored == TRUE
LockFree == _reconnect_lock.holder = NoTask /\ _reconnect_lock.waiters = <<>>

InCycle(t) ==
    \/ pc[t] \in {"r173", "r176", "r180"}
    \/ attempt[t] > 0 /\ pc[t] \in {"c232", "c235", "c241", "c254"}

\* line 162: async with self._reconnect_lock
CoordEnter(t) ==
    /\ cur = t /\ pc[t] = "r162"
    /\ hist' = [hist EXCEPT
                  !.coord[t] = [behind |-> \E u \in Tasks : u # t /\ InCycle(u),
                                ran |-> FALSE, delays |-> <<>>],
                  !.send = [c \in Callers |-> IF c = t THEN [@[c] EXCEPT !.coord = @ + 1] ELSE @[c]]]
    /\ IF LockFree
       THEN /\ _reconnect_lock' = [_reconnect_lock EXCEPT !.holder = t]
            /\ pc' = [pc EXCEPT ![t] = "r163"]
            /\ UNCHANGED cur
       ELSE /\ _reconnect_lock' = [_reconnect_lock EXCEPT !.waiters = Append(@, t)]
            /\ pc' = [pc EXCEPT ![t] = "r162w"]
            /\ cur' = NoTask
    /\ UNCHANGED <<clientVars, objVars, _metrics, listeners, frames, attempt, retry, target>>

\* line 162: the released lock is handed to the first waiter
CoordLockAcquired(t) ==
    /\ cur = NoTask /\ pc[t] = "r162w"
    /\ _reconnect_lock.holder = NoTask
    /\ _reconnect_lock.waiters # <<>> /\ Head(_reconnect_lock.waiters) = t
    /\ _reconnect_lock' = [holder |-> t, waiters |-> Tail(_reconnect_lock.waiters)]
    /\ pc' = [pc EXCEPT ![t] = "r163"]
    /\ cur' = t
    /\ UNCHANGED <<clientVars, objVars, _metrics, listeners, frames, attempt, retry, target, hist>>

\* line 163: if self._is_connected or self._is_connecting
NoReconnectNeeded == _is_connected \/ _is_connecting

\* lines 163-173: the entry check, the cycle counter, the first sleep
CoordCheck(t) ==
    /\ cur = t /\ pc[t] = "r163"
    /\ IF NoReconnectNeeded
       THEN /\ _reconnect_lock' = [_reconnect_lock EXCEPT !.holder = NoTask]
            /\ pc' = [pc EXCEPT ![t] = CoordReturnLabel(t)]
            /\ cur' = CoordReturnCur(t)
            /\ UNCHANGED <<_metrics, attempt, target, hist>>
       ELSE /\ _metrics' = [_metrics EXCEPT !.reconnect_count = @ + 1]
            /\ attempt' = [attempt EXCEPT ![t] = 1]
            /\ target' = [target EXCEPT ![t] = BackoffDelay(_reconnect_delay, 1)]
            /\ hist' = [hist EXCEPT !.coord[t].ran = TRUE,
                                    !.coord[t].delays = <<BackoffDelay(_reconnect_delay, 1)>>]
            /\ pc' = [pc EXCEPT ![t] = "r173"]
            /\ cur' = NoTask
            /\ UNCHANGED _reconnect_lock
    /\ UNCHANGED <<clientVars, objVars, listeners, frames, retry>>

\* lines 173-174: the sleep is over, connect() is called
CoordWake(t) ==
    /\ cur = NoTask /\ pc[t] = "r173"
    /\ pc' = [pc EXCEPT ![t] = "c232"]
    /\ target' = [target EXCEPT ![t] = None]
    /\ cur' = t
    /\ UNCHANGED <<clientVars, objVars, _metrics, _reconnect_lock, listeners, frames,
                   attempt, retry, hist>>

\* lines 168-173, 183: the next attempt of the loop, or the loop is over
CoordNextAttempt(t) ==
    IF attempt[t] < _max_reconnect_attempts
    THEN /\ attempt' = [attempt EXCEPT ![t] = @ + 1]
         /\ target' = [target EXCEPT ![t] = BackoffDelay(_reconnect_delay, attempt[t] + 1)]
         /\ hist' = [hist EXCEPT !.coord[t].delays =
                                     Append(@, BackoffDelay(_reconnect_delay, attempt[t] + 1))]
         /\ pc' = [pc EXCEPT ![t] = "r173"]
         /\ cur' = NoTask
         /\ UNCHANGED _reconnect_lock
    ELSE /\ attempt' = [attempt EXCEPT ![t] = 0]
         /\ _reconnect_lock' = [_reconnect_lock EXCEPT !.holder = NoTask]
         /\ pc' = [pc EXCEPT ![t] = CoordReturnLabel(t)]
         /\ cur' = CoordReturnCur(t)
         /\ UNCHANGED <<target, hist>>

\* lines 176-178: connect() returned
CoordAfterConnect(t) ==
    /\ cur = t /\ pc[t] = "r176"
    /\ IF _is_connected
       THEN /\ attempt' = [attempt EXCEPT ![t] = 0]
            /\ _reconnect_lock' = [_reconnect_lock EXCEPT !.holder = NoTask]
            /\ pc' = [pc EXCEPT ![t] = CoordReturnLabel(t)]
            /\ cur' = CoordReturnCur(t)
            /\ UNCHANGED <<target, hist>>
       ELSE CoordNextAttempt(t)
    /\ UNCHANGED <<clientVars, objVars, _metrics, listeners, frames, retry>>

\* lines 180-181: connect() raised; the error is logged
CoordAfterRaise(t) ==
    /\ cur = t /\ pc[t] = "r180"
    /\ CoordNextAttempt(t)
    /\ UNCHANGED <<clientVars, objVars, _metrics, listeners, frames, retry>>

\* line 151: the task created by the listener starts to run
CoordTaskStart(t) ==
    /\ cur = NoTask /\ t \in ReconnTasks /\ pc[t] = "r_start"
    /\ pc' = [pc EXCEPT ![t] = "r162"]
    /\ cur' = t
    /\ UNCHANGED <<clientVars, objVars, _metrics, _reconnect_lock, listeners, frames,
                   attempt, retry, target, hist>>

\* ------------------------------------------------------------------ send()
\* What send_json does on a socket: it succeeds or fails with a client or
\* unexpected error on an open transport, and is reset on a lost or closed one.
SendOutcomes(s) ==
    IF sockets[s] = "open" THEN {"ok", "client_error", "unexpected"} ELSE {"reset"}

\* lines 189, 193: return False, where a variant of send() would first call
\* the coordinator (line 216)
FastFailLabel_Reconnects == "r162"
FastFailLabel == "ret_send_false"

\* lines 185-196: validation, the fast-fail check, the first transmission
CallSend(c, isMapping) ==
    /\ CanCall(c)
    /\ IF isMapping /\ is_connected
       THEN /\ pc' = [pc EXCEPT ![c] = "s196"]
            /\ target' = [target EXCEPT ![c] = _websocket]
            /\ hist' = [hist EXCEPT !.ops = @ + 1,
                                    !.send[c] = [NoSend EXCEPT !.mapping = TRUE, !.entryConn = TRUE, !.tx = 1]]
            /\ UNCHANGED cur
       ELSE /\ pc' = [pc EXCEPT ![c] = FastFailLabel]
            /\ hist' = [hist EXCEPT !.ops = @ + 1,
                                    !.send[c] = [NoSend EXCEPT !.mapping = isMapping,
                                                              !.entryConn = is_connected]]
            /\ cur' = c
            /\ UNCHANGED target
    /\ UNCHANGED <<clientVars, objVars, _metrics, _reconnect_lock, listeners, frames,
                   attempt, retry>>

\* lines 196-210: the first transmission resolved
SendDone(c, outcome) ==
    /\ cur = NoTask /\ c \in Callers /\ pc[c] = "s196"
    /\ outcome \in SendOutcomes(target[c])
    /\ cur' = c
    /\ target' = [target EXCEPT ![c] = None]
    /\ IF outcome = "ok"
       THEN /\ pc' = [pc EXCEPT ![c] = "ret_send_true"]
            /\ UNCHANGED <<retry, hist>>
       ELSE IF outcome = "reset"
       THEN /\ retry' = [retry EXCEPT ![c] = 0]           \* line 214
            /\ pc' = [pc EXCEPT ![c] = "r162"]            \* line 216
            /\ hist' = [hist EXCEPT !.send[c].firstReset = TRUE]
       ELSE /\ pc' = [pc EXCEPT ![c] = "ret_send_false"]
            /\ UNCHANGED <<retry, hist>>
    /\ UNCHANGED <<clientVars, objVars, _metrics, _reconnect_lock, listeners, frames, attempt>>

\* line 214: for retry in range(max_retries) (a variant goes one round
\* further)
RetryBudgetLeft_OneMore(c) == retry[c] < max_retries
RetryBudgetLeft(c) == retry[c] + 1 < max_retries

\* lines 214, 227-228: the next round of the retry loop, or give up
RetryNext(c) ==
    IF RetryBudgetLeft(c)
    THEN /\ retry' = [retry EXCEPT ![c] = @ + 1]
         /\ pc' = [pc EXCEPT ![c] = "r162"]
    ELSE /\ pc' = [pc EXCEPT ![c] = "ret_send_false"]
         /\ UNCHANGED retry

\* lines 216-219: the coordinator returned
RetryCheck(c) ==
    /\ cur = c /\ c \in Callers /\ pc[c] = "s218"
    /\ IF is_connected
       THEN /\ pc' = [pc EXCEPT ![c] = "s219"]
            /\ cur' = NoTask
            /\ hist' = [hist EXCEPT !.send[c].reconnOK = TRUE]
            /\ UNCHANGED retry
       ELSE /\ RetryNext(c)
            /\ UNCHANGED <<cur, hist>>
    /\ UNCHANGED <<clientVars, objVars, _metrics, _reconnect_lock, listeners, frames,
                   attempt, target>>

\* lines 219-220: the stabilisation delay is over, the payload is sent again
\* on the socket the client holds now (none: the call raises at once)
RetrySend(c) ==
    /\ cur = NoTask /\ c \in Callers /\ pc[c] = "s219"
    /\ IF _websocket = None
       THEN /\ RetryNext(c)
            /\ cur' = c
            /\ UNCHANGED <<target, hist>>
       ELSE /\ pc' = [pc EXCEPT ![c] = "s220"]
            /\ target' = [target EXCEPT ![c] = _websocket]
            /\ hist' = [hist EXCEPT !.send[c].tx = @ + 1]
            /\ UNCHANGED <<cur, retry>>
    /\ UNCHANGED <<clientVars, objVars, _metrics, _reconnect_lock, listeners, frames, attempt>>

\* lines 220-225: the retransmission resolved
RetrySendDone(c, outcome) ==
    /\ cur = NoTask /\ c \in Callers /\ pc[c] = "s220"
    /\ outcome \in SendOutcomes(target[c])
    /\ cur' = c
    /\ target' = [target EXCEPT ![c] = None]
    /\ IF outcome = "ok"
       THEN /\ pc' = [pc EXCEPT ![c] = "ret_send_true"]
            /\ hist' = [hist EXCEPT !.send[c].retxOK = @ + 1]
            /\ UNCHANGED retry
       ELSE /\ RetryNext(c)
            /\ UNCHANGED hist
    /\ UNCHANGED <<clientVars, objVars, _metrics, _reconnect_lock, listeners, frames, attempt>>

\* ------------------------------------------------------- caller operations
\* The state a disconnect() leaves behind, which is also the state of a client
\* that never connected: status Disconnected, no listener task held, and
\* each handle absent or on a closed object.
AlreadyDisconnected ==
    /\ ~_is_connected
    /\ _task = None
    /\ _websocket = None \/ sockets[_websocket] = "closed"
    /\ _session = None \/ sessions[_session] = "closed"
    /\ _connector = None \/ connectors[_connector] = "closed"

CallConnect(c) ==
    /\ CanCall(c)
    /\ pc' = [pc EXCEPT ![c] = "c232"]
    /\ cur' = c
    /\ hist' = [hist EXCEPT !.ops = @ + 1, !.down = FALSE]
    /\ UNCHANGED <<clientVars, objVars, _metrics, _reconnect_lock, listeners, frames,
                   attempt, retry, target>>

CallDisconnect(c) ==
    /\ CanCall(c)
    /\ pc' = [pc EXCEPT ![c] = "d299"]
    /\ cur' = c
    /\ hist' = [hist EXCEPT !.ops = @ + 1, !.torn[c] = AlreadyDisconnected]
    /\ UNCHANGED <<clientVars, objVars, _metrics, _reconnect_lock, listeners, frames,
                   attempt, retry, target>>

\* A caller is inside a connect() that it called itself.
InCallerConnect(c) ==
    attempt[c] = 0 /\ pc[c] \in {"c232", "c235", "c241", "c254", "ret_connect", "raise_connect"}

\* The caller has taken the client down: a disconnect() returns with the
\* status Disconnected while no caller is inside connect().
TakenDown(c) ==
    /\ pc[c] = "ret_disconnect" /\ ~_is_connected
    /\ \A d \in Callers : ~InCallerConnect(d)

ReturnLabels == {"ret_connect", "raise_connect", "ret_disconnect", "ret_send_true", "ret_send_false"}

\* The operation returns to (or raises into) its caller.
Return(c) ==
    /\ cur = c /\ c \in Callers /\ pc[c] \in ReturnLabels
    /\ hist' = [hist EXCEPT
                  !.lastOp = IF pc[c] = "ret_disconnect" THEN "disconnect" ELSE @,
                  !.send[c] = NoSend,
                  !.torn[c] = FALSE,
                  !.down = @ \/ TakenDown(c)]
    /\ pc' = [pc EXCEPT ![c] = "idle"]
    /\ retry' = [retry EXCEPT ![c] = 0]
    /\ cur' = NoTask
    /\ UNCHANGED <<clientVars, objVars, _metrics, _reconnect_lock, listeners, frames,
                   attempt, target>>

\* -------------------------------------------------------------- disconnect()
\* line 302: if self._task and not self._task.cancelled()
TaskToCancel == _task # None /\ listeners[_task].st # "cancelled"

\* Task.cancel(): a task that never ran ends cancelled, a task suspended in
\* its receive gets the cancellation there, a finished task is left alone.
CancelTask(l) ==
    [listeners EXCEPT ![l] =
        IF @.st = "created" THEN [@ EXCEPT !.st = "cancelled", !.cancel = TRUE]
        ELSE IF @.st = "recv" THEN [@ EXCEPT !.cancel = TRUE]
        ELSE @]

Finished(l) == listeners[l].st \in {"done", "cancelled"}

\* lines 298-308: the flag, the cancellation of the listener task.  Awaiting
\* a task that is already done does not suspend.
DisconnectEntry(c) ==
    /\ cur = c /\ pc[c] = "d299"
    /\ _is_connected' = FALSE
    /\ hist' = [hist EXCEPT !.lossSince = TRUE, !.coord = Uncovered(@)]
    /\ IF TaskToCancel
       THEN /\ listeners' = CancelTask(_task)
            /\ IF listeners[_task].st = "done"
               THEN /\ _task' = None
                    /\ pc' = [pc EXCEPT ![c] = "d311"]
                    /\ UNCHANGED <<cur, target>>
               ELSE /\ pc' = [pc EXCEPT ![c] = "d305"]
                    /\ target' = [target EXCEPT ![c] = _task]
                    /\ cur' = NoTask
                    /\ UNCHANGED _task
       ELSE /\ pc' = [pc EXCEPT ![c] = "d311"]
            /\ UNCHANGED <<listeners, _task, cur, target>>
    /\ UNCHANGED <<_is_connecting, _session, _websocket, _connector, objVars, _metrics,
                   _reconnect_lock, frames, attempt, retry>>

\* lines 305-308: the cancelled task ended within the bounded wait
DisconnectTaskEnded(c) ==
    /\ cur = NoTask /\ pc[c] = "d305"
    /\ Finished(target[c])
    /\ _task' = None
    /\ pc' = [pc EXCEPT ![c] = "d311"]
    /\ target' = [target EXCEPT ![c] = None]
    /\ cur' = c
    /\ UNCHANGED <<_is_connected, _is_connecting, _session, _websocket, _connector, objVars,
                   _metrics, _reconnect_lock, listeners, frames, attempt, retry, hist>>

\* lines 305-308: the bounded wait ran out (asyncio.TimeoutError is ignored)
DisconnectTaskTimeout(c) ==
    /\ cur = NoTask /\ pc[c] = "d305"
    /\ ~Finished(target[c])
    /\ _task' = None
    /\ pc' = [pc EXCEPT ![c] = "d311"]
    /\ target' = [target EXCEPT ![c] = None]
    /\ cur' = c
    /\ UNCHANGED <<_is_connected, _is_connecting, _session, _websocket, _connector, objVars,
                   _metrics, _reconnect_lock, listeners, frames, attempt, retry, hist>>

\* line 311: if self._websocket and not self._websocket.closed (a variant
\* closes whatever socket the handle holds)
SocketToClose_Any == _websocket # None
SocketToClose == _websocket # None /\ sockets[_websocket] # "closed"

\* lines 311-313: close() marks the socket closed and suspends
DisconnectCloseSocket(c) ==
    /\ cur = c /\ pc[c] = "d311"
    /\ IF SocketToClose
       THEN /\ sockets' = [sockets EXCEPT ![_websocket] = "closed"]
            /\ pc' = [pc EXCEPT ![c] = "d313"]
            /\ cur' = NoTask
       ELSE /\ pc' = [pc EXCEPT ![c] = "d319"]
            /\ UNCHANGED <<sockets, cur>>
    /\ UNCHANGED <<clientVars, sessions, connectors, session_connector, _metrics, _reconnect_lock, listeners,
                   frames, attempt, retry, target, hist>>

\* lines 313-316: close() returned or raised (the error is logged); either
\* way the handle is dropped
DisconnectSocketClosed(c, raised) ==
    /\ cur = NoTask /\ pc[c] = "d313"
    /\ _websocket' = None
    /\ pc' = [pc EXCEPT ![c] = "d319"]
    /\ cur' = c
    /\ raised \in BOOLEAN
    /\ UNCHANGED <<_is_connected, _is_connecting, _session, _task, _connector, objVars,
                   _metrics, _reconnect_lock, listeners, frames, attempt, retry, target, hist>>

\* lines 319-321
DisconnectCloseSession(c) ==
    /\ cur = c /\ pc[c] = "d319"
    /\ IF _session # None /\ sessions[_session] # "closed"
       THEN /\ sessions' = [sessions EXCEPT ![_session] = "closed"]
            /\ pc' = [pc EXCEPT ![c] = "d321"]
            /\ cur' = NoTask
       ELSE /\ pc' = [pc EXCEPT ![c] = "d327"]
            /\ UNCHANGED <<sessions, cur>>
    /\ UNCHANGED <<clientVars, sockets, connectors, session_connector, _metrics, _reconnect_lock, listeners,
                   frames, attempt, retry, target, hist>>

\* lines 321-324
DisconnectSessionClosed(c, raised) ==
    /\ cur = NoTask /\ pc[c] = "d321"
    /\ _session' = None
    /\ pc' = [pc EXCEPT ![c] = "d327"]
    /\ cur' = c
    /\ raised \in BOOLEAN
    /\ UNCHANGED <<_is_connected, _is_connecting, _websocket, _task, _connector, objVars,
                   _metrics, _reconnect_lock, listeners, frames, attempt, retry, target, hist>>

\* lines 327-329, 334
DisconnectCloseConnector(c) ==
    /\ cur = c /\ pc[c] = "d327"
    /\ IF _connector # None /\ connectors[_connector] # "closed"
       THEN /\ connectors' = [connectors EXCEPT ![_connector] = "closed"]
            /\ pc' = [pc EXCEPT ![c] = "d329"]
            /\ cur' = NoTask
       ELSE /\ pc' = [pc EXCEPT ![c] = "ret_disconnect"]
            /\ UNCHANGED <<connectors, cur>>
    /\ UNCHANGED <<clientVars, sockets, sessions, session_connector, _metrics, _reconnect_lock, listeners,
                   frames, attempt, retry, target, hist>>

\* lines 329-334
DisconnectConnectorClosed(c, raised) ==
    /\ cur = NoTask /\ pc[c] = "d329"
    /\ _connector' = None
    /\ pc' = [pc EXCEPT ![c] = "ret_disconnect"]
    /\ cur' = c
    /\ raised \in BOOLEAN
    /\ UNCHANGED <<_is_connected, _is_connecting, _session, _websocket, _task, objVars,
                   _metrics, _reconnect_lock, listeners, frames, attempt, retry, target, hist>>

\* ---------------------------------------------------------------- _listen()
LTask(l) == <<"listener", l>>
DataKinds == {"text_ok", "text_bad", "other"}
DataFrames == {i \in DOMAIN frames : frames[i].kind \in DataKinds}

\* The task created at line 263 starts to run.
ListenerStart(l) ==
    /\ cur = NoTask /\ listeners[l].st = "created"
    /\ listeners' = [listeners EXCEPT ![l].st = "l103"]
    /\ cur' = LTask(l)
    /\ UNCHANGED <<clientVars, objVars, _metrics, _reconnect_lock, frames, pc, attempt,
                   retry, target, hist>>

\* lines 103-109: the loop condition, then receive() on the socket the client
\* holds now; with no socket the call raises and line 143 leaves the loop.
ListenerLoop(l) ==
    /\ cur = LTask(l) /\ listeners[l].st = "l103"
    /\ IF _is_connected /\ _websocket # None
       THEN /\ listeners' = [listeners EXCEPT ![l].st = "recv", ![l].sock = _websocket]
            /\ cur' = NoTask
       ELSE /\ listeners' = [listeners EXCEPT ![l].st = "l148"]
            /\ UNCHANGED cur
    /\ UNCHANGED <<clientVars, objVars, _metrics, _reconnect_lock, frames, pc, attempt,
                   retry, target, hist>>

\* What receive() returns on a socket: data frames while the transport is up,
\* an error or close frame once it is lost (the socket is then closed), the
\* CLOSED frame on a closed socket.
FrameKinds(s) ==
    IF sockets[s] = "open" THEN DataKinds
    ELSE IF sockets[s] = "broken" THEN {"error", "close"}
    ELSE {"closed"}

\* line 112: the message counter, which counts every frame received (a
\* variant counts only the frames that decode)
CountMessage_Decoded(m, kind) ==
    IF kind = "text_ok" THEN [m EXCEPT !.message_count = @ + 1] ELSE m
CountMessage(m, kind) == [m EXCEPT !.message_count = @ + 1]

\* lines 115-124: a text frame that decodes is handed to a new task (a
\* variant hands over every text frame)
Dispatch_Undecoded(kind) == IF kind \in {"text_ok", "text_bad"} THEN "pending" ELSE "none"
Dispatch(kind) == IF kind = "text_ok" THEN "pending" ELSE "none"

\* lines 115-132: only an error or close frame breaks out of the loop; a text
\* frame that fails to decode is logged (a variant breaks on it)
LoopContinues_BreakOnBadJson(kind) == kind \in DataKinds \ {"text_bad"}
LoopContinues(kind) == kind \in DataKinds

\* lines 106-132: a frame was received
ListenerReceive(l, kind) ==
    /\ cur = NoTask /\ listeners[l].st = "recv" /\ ~listeners[l].cancel
    /\ kind \in FrameKinds(listeners[l].sock)
    /\ kind \in DataKinds => Cardinality(DataFrames) < hist.scenario.frames
    /\ _metrics' = CountMessage(_metrics, kind)
    /\ frames' = Append(frames, [kind |-> kind, st |-> Dispatch(kind), calls |-> 0])
    /\ IF LoopContinues(kind)
       THEN /\ listeners' = [listeners EXCEPT ![l].st = "l103"]
            /\ UNCHANGED <<sockets, hist>>
       ELSE /\ listeners' = [listeners EXCEPT ![l].st = "l148"]
            /\ sockets' = [sockets EXCEPT ![listeners[l].sock] = "closed"]
            /\ hist' = [hist EXCEPT !.lossSince = TRUE]
    /\ cur' = LTask(l)
    /\ UNCHANGED <<clientVars, sessions, connectors, session_connector, _reconnect_lock, pc,
                   attempt, retry, target>>

\* lines 134-137: no frame within heartbeat + 10
ListenerTimeout(l) ==
    /\ cur = NoTask /\ listeners[l].st = "recv" /\ ~listeners[l].cancel
    /\ listeners' = [listeners EXCEPT ![l].st = IF is_connected THEN "l103" ELSE "l148"]
    /\ cur' = LTask(l)
    /\ UNCHANGED <<clientVars, objVars, _metrics, _reconnect_lock, frames, pc, attempt,
                   retry, target, hist>>

\* lines 139-141: the cancellation arrives in receive()
ListenerCancelled(l) ==
    /\ cur = NoTask /\ listeners[l].st = "recv" /\ listeners[l].cancel
    /\ listeners' = [listeners EXCEPT ![l].st = "l148"]
    /\ cur' = LTask(l)
    /\ UNCHANGED <<clientVars, objVars, _metrics, _reconnect_lock, frames, pc, attempt,
                   retry, target, hist>>

UnbornTasks == {r \in ReconnTasks : pc[r] = "unborn"}

\* lines 148-151: after the loop
ListenerExit(l) ==
    /\ cur = LTask(l) /\ listeners[l].st = "l148"
    /\ IF _is_connected
       THEN /\ UnbornTasks # {}
            /\ _is_connected' = FALSE
            /\ pc' = [pc EXCEPT ![CHOOSE r \in UnbornTasks : TRUE] = "r_start"]
            /\ hist' = [hist EXCEPT !.lossSince = TRUE, !.coord = Uncovered(@)]
       ELSE UNCHANGED <<_is_connected, pc, hist>>
    /\ listeners' = [listeners EXCEPT ![l].st = "done"]
    /\ cur' = NoTask
    /\ UNCHANGED <<_is_connecting, _session, _websocket, _task, _connector, objVars,
                   _metrics, _reconnect_lock, frames, attempt, retry, target>>

\* lines 153-158: the handler's error is caught and logged
HandlerResult(raises) == IF raises THEN "caught" ELSE "ok"

\* lines 119-122, 153-158: the dispatch task of frame f runs the handler
ProcessMessage(f, raises) ==
    /\ cur = NoTask /\ f \in DOMAIN frames /\ frames[f].st = "pending"
    /\ frames' = [frames EXCEPT ![f].st = HandlerResult(raises), ![f].calls = @ + 1]
    /\ UNCHANGED <<clientVars, objVars, _metrics, _reconnect_lock, listeners, pc, attempt,
                   retry, target, cur, hist>>

\* ------------------------------------------------------------- environment
\* The remote end, or the network, breaks the transport of an open socket.
RemoteDrop(s) ==
    /\ cur = NoTask /\ sockets[s] = "open"
    /\ hist.drops < MaxDrops
    /\ sockets' = [sockets EXCEPT ![s] = "broken"]
    /\ hist' = [hist EXCEPT !.drops = @ + 1]
    /\ UNCHANGED <<clientVars, sessions, connectors, session_connector, _metrics, _reconnect_lock, listeners,
                   frames, pc, attempt, retry, target, cur>>

\* ----------------------------------------------------------- specification
Next ==
    \/ \E c \in Callers : CallConnect(c) \/ CallDisconnect(c) \/ Return(c)
    \/ \E c \in Callers, m \in BOOLEAN : CallSend(c, m)
    \/ \E t \in Tasks : ConnectEntry(t) \/ ConnectWaitDone(t) \/ HandshakeOk(t) \/ HandshakeFail(t)
    \/ \E t \in Tasks : ConnectAlready(t)
    \/ \E t \in Tasks : CoordEnter(t) \/ CoordLockAcquired(t) \/ CoordCheck(t) \/ CoordWake(t)
    \/ \E t \in Tasks : CoordAfterConnect(t) \/ CoordAfterRaise(t) \/ CoordTaskStart(t)
    \/ \E c \in Callers, o \in {"ok", "reset", "client_error", "unexpected"} :
          SendDone(c, o) \/ RetrySendDone(c, o)
    \/ \E c \in Callers : RetryCheck(c) \/ RetrySend(c)
    \/ \E c \in Callers : DisconnectEntry(c) \/ DisconnectTaskEnded(c) \/ DisconnectTaskTimeout(c)
    \/ \E c \in Callers : DisconnectCloseSocket(c) \/ DisconnectCloseSession(c) \/ DisconnectCloseConnector(c)
    \/ \E c \in Callers, e \in BOOLEAN :
          DisconnectSocketClosed(c, e) \/ DisconnectSessionClosed(c, e) \/ DisconnectConnectorClosed(c, e)
    \/ \E l \in ListenerIds : ListenerStart(l) \/ ListenerLoop(l) \/ ListenerTimeout(l)
    \/ \E l \in ListenerIds : ListenerCancelled(l) \/ ListenerExit(l)
    \/ \E l \in ListenerIds, k \in DataKinds \cup {"error", "close", "closed"} : ListenerReceive(l, k)
    \/ \E f \in 1..(MaxFrames + 2 * MaxSockets), r \in BOOLEAN : ProcessMessage(f, r)
    \/ \E s \in SocketIds : RemoteDrop(s)

Spec == Init /\ [][Next]_vars

\* The backoff runs: a client built with any base delay connects once, loses
\* the connection and goes through one reconnection cycle.
BackoffScenarios ==
    {Scenario(1, 0, MaxBackoffAttempts, b) : b \in 1..MaxBaseDelay}

InitBackoff == InitWith(BackoffScenarios)

NextBackoff ==
    \/ \E c \in Callers : CallConnect(c) \/ Return(c)
    \/ \E t \in Tasks : ConnectEntry(t) \/ HandshakeOk(t) \/ HandshakeFail(t)
    \/ \E t \in Tasks : CoordEnter(t) \/ CoordCheck(t) \/ CoordWake(t)
    \/ \E t \in Tasks : CoordAfterConnect(t) \/ CoordAfterRaise(t) \/ CoordTaskStart(t)
    \/ \E l \in ListenerIds : ListenerStart(l) \/ ListenerLoop(l) \/ ListenerExit(l)
    \/ \E l \in ListenerIds, k \in {"error", "close"} : ListenerReceive(l, k)
    \/ \E s \in SocketIds : RemoteDrop(s)

SpecBackoff == InitBackoff /\ [][NextBackoff]_vars

\* The recovery runs: the callers call connect() only, never disconnect(),
\* and the remote end breaks the connection.
RecoveryScenarios == {Scenario(MaxOpsFrames, 0, MaxAttempts, DefaultReconnectDelay)}

InitRecovery == InitWith(RecoveryScenarios)

NextRecovery ==
    \/ \E c \in Callers : CallConnect(c) \/ Return(c)
    \/ \E t \in Tasks : ConnectEntry(t) \/ ConnectWaitDone(t) \/ ConnectAlready(t)
    \/ \E t \in Tasks : HandshakeOk(t) \/ HandshakeFail(t)
    \/ \E t \in Tasks : CoordEnter(t) \/ CoordCheck(t) \/ CoordWake(t)
    \/ \E t \in Tasks : CoordAfterConnect(t) \/ CoordAfterRaise(t) \/ CoordTaskStart(t)
    \/ \E l \in ListenerIds : ListenerStart(l) \/ ListenerLoop(l) \/ ListenerTimeout(l)
    \/ \E l \in ListenerIds : ListenerExit(l)
    \/ \E l \in ListenerIds, k \in {"error", "close"} : ListenerReceive(l, k)
    \/ \E s \in SocketIds : RemoteDrop(s)

SpecRecovery == InitRecovery /\ [][NextRecovery]_vars

\* ------------------------------------------------------------------ claims
Quiescent == cur = NoTask

\* C1 (as stated): at every point between task steps, is_connected is true
\* exactly when the last completed operation was a successful connect() with
\* no disconnect() and no connection failure since; and whenever the last
\* completed operation is disconnect(), the status flag is Disconnected.
C1_AsStated ==
    Quiescent =>
        /\ is_connected <=> (hist.lastOp = "connect_ok" /\ ~hist.lossSince)
        /\ hist.lastOp = "disconnect" => ~_is_connected

\* C2 (as stated): a coordinator invocation that arrives while another
\* invocation's reconnection cycle is running, with no new disconnection
\* since, never runs an attempt loop of its own (so the cycle counter grows
\* by one for all of them), whether that cycle ends connected or exhausts
\* its attempts.
C2_AsStated ==
    \A t \in Tasks : hist.coord[t].behind => ~hist.coord[t].ran

\* C3 (as stated): when send() returns after its first transmission was reset
\* and the coordinator it called came back with the client connected, it
\* returns true after exactly one successful retransmission.
C3_AsStated ==
    \A c \in Callers :
        (pc[c] \in {"ret_send_true", "ret_send_false"}
         /\ hist.send[c].firstReset /\ hist.send[c].reconnOK)
        => (pc[c] = "ret_send_true" /\ hist.send[c].retxOK = 1)

\* C4 (as stated): when disconnect() returns, every listener task has ended
\* or been cancelled and every socket, session and connector the client
\* created is closed.
Released ==
    /\ \A l \in ListenerIds : listeners[l].st \in {"unborn", "done", "cancelled"} \/ listeners[l].cancel
    /\ \A s \in SocketIds : sockets[s] \in {"unborn", "closed"}
    /\ \A s \in SessionIds : sessions[s] \in {"unborn", "closed"}
    /\ \A k \in ConnectorIds : connectors[k] \in {"unborn", "closed"}

C4_AsStated ==
    \A c \in Callers : pc[c] = "ret_disconnect" => Released

\* C5: send() on a client that is not connected returns false in one step:
\* no transport call, no coordinator invocation, and the status flags, the
\* handles, the resources, the metrics, the lock and the listeners unchanged.
C5_FastFail ==
    [][\A c \in Callers :
          (pc[c] = "idle" /\ pc'[c] \notin {"idle", "c232", "d299"} /\ ~is_connected)
          => /\ pc'[c] = "ret_send_false"
             /\ hist'.send[c].tx = 0 /\ hist'.send[c].coord = 0
             /\ UNCHANGED <<clientVars, objVars, _metrics, _reconnect_lock, listeners>>]_vars

C5_Witness ==
    \E c \in Callers :
        /\ pc[c] = "ret_send_false" /\ hist.send[c].mapping /\ ~hist.send[c].entryConn
        /\ _metrics.connect_attempts > 0

C7_Backoff ==
    \A t \in Tasks :
        LET d == hist.coord[t].delays
        IN  /\ \A k \in DOMAIN d : d[k] <= 60 /\ d[k] = Min(_reconnect_delay * Pow2(k - 1), 60)
            /\ \A k \in DOMAIN d : k > 1 => d[k - 1] <= d[k]
            /\ _reconnect_delay = 5 =>
                  \A k \in DOMAIN d : d[k] = IF k >= 5 THEN 60 ELSE <<5, 10, 20, 40>>[k]

C7_Witness ==
    \E t \in Tasks :
        /\ _reconnect_delay = 5 /\ Len(hist.coord[t].delays) >= 5
        /\ hist.coord[t].delays[4] = 40 /\ hist.coord[t].delays[5] = 60

\* C8: at most one reconnection cycle is in progress, and the task that runs
\* it holds the reconnection lock from the entry check to the end of the cycle.
C8_OneCycle ==
    /\ Cardinality({t \in Tasks : InCycle(t)}) <= 1
    /\ \A t \in Tasks : (InCycle(t) \/ pc[t] = "r163") => _reconnect_lock.holder = t

C8_Witness ==
    \E t, u \in Tasks :
        /\ pc[t] = "r173" /\ attempt[t] = 2
        /\ pc[u] = "r162w" /\ u \in Callers /\ t \in ReconnTasks

\* C9: at most one handshake is in flight; a connect() that finds another one
\* Connecting performs no handshake, leaves connect_attempts alone, waits
\* until the flag is clear and then returns without raising.
C9_OneHandshake ==
    [][/\ Cardinality({t \in Tasks : pc'[t] = "c254"}) <= 1
       /\ \A t \in Tasks :
            /\ (pc[t] = "c232" /\ _is_connecting)
               => (pc'[t] = "c235" /\ UNCHANGED <<_metrics, clientVars, objVars>>)
            /\ pc[t] = "c235"
               => \/ pc'[t] = "c235"
                  \/ /\ pc'[t] = ConnectReturnLabel(t) /\ ~_is_connecting
                     /\ UNCHANGED <<_metrics, clientVars, objVars>>]_vars

C9_Witness ==
    \E t \in Tasks :
        /\ pc[t] = "ret_connect" /\ ~_is_connected
        /\ hist.lastOp = "connect_fail"

\* C10: the handler runs at most once for a frame, only for a text frame that
\* decoded, and an error it raises is caught in its own dispatch task.
C10_HandlerOnce ==
    \A f \in DOMAIN frames :
        /\ frames[f].calls <= 1
        /\ frames[f].st # "none" => frames[f].kind = "text_ok"
        /\ frames[f].calls = 1 <=> frames[f].st \in {"ok", "caught"}
        /\ frames[f].st \in {"none", "pending", "ok", "caught"}

C10_Witness ==
    /\ \E f \in DOMAIN frames : frames[f].st = "caught" /\ frames[f].calls = 1
    /\ \E f \in DOMAIN frames : frames[f].kind = "text_bad" /\ frames[f].calls = 0

\* A caller is inside send(): at a transmission, in the retry loop, or in
\* the coordinator (and its connect()) that the retry loop called.
InSend(c) ==
    \/ pc[c] \in {"s196", "s218", "s219", "s220", "ret_send_true", "ret_send_false"}
    \/ pc[c] \in {"r162", "r162w", "r163", "r173", "r176", "r180"}
    \/ attempt[c] > 0 /\ pc[c] \in {"c232", "c235", "c241", "c254"}

\* C11: send() never raises into its caller: whatever the payload and the
\* outcome of the transmissions, of the coordinator and of the handshakes it
\* runs, a caller inside send() stays inside send() until it returns true or
\* false; and with a payload that is not a mapping it returns false in one
\* step, with no transmission and no coordinator invocation.
C11_NeverRaises ==
    [][\A c \in Callers :
          /\ InSend(c) =>
                \/ InSend(c)'
                \/ pc[c] \in {"ret_send_true", "ret_send_false"} /\ pc'[c] = "idle"
          /\ (pc[c] = "idle" /\ InSend(c)' /\ ~hist'.send[c].mapping)
             => /\ pc'[c] = "ret_send_false"
                /\ hist'.send[c].tx = 0 /\ hist'.send[c].coord = 0
                /\ UNCHANGED <<clientVars, objVars, _metrics, _reconnect_lock, listeners>>]_vars

C11_Witness ==
    \E c \in Callers :
        /\ pc[c] = "ret_send_false" /\ hist.send[c].firstReset
        /\ hist.send[c].coord = 2 /\ hist.coord[c].ran
        /\ Len(hist.coord[c].delays) = _max_reconnect_attempts

\* C12: connect() on a client whose status is Connected goes straight to
\* its return and from there back to its caller, without suspending: no
\* handshake, no new listener task, and the flags, the handles, the
\* resources and the metrics (connect_attempts, last_connect_time) unchanged.
C12_Idempotent ==
    [][\A t \in Tasks :
          /\ (pc[t] = "c232" /\ _is_connected)
             => /\ pc'[t] = "c241" /\ cur' = t
                /\ UNCHANGED <<clientVars, objVars, _metrics, listeners>>
          /\ pc[t] = "c241"
             => /\ _is_connected
                /\ pc'[t] = ConnectReturnLabel(t) /\ cur' = t
                /\ UNCHANGED <<clientVars, objVars, _metrics, listeners>>]_vars

C12_Witness ==
    \E c \in Callers :
        /\ pc[c] = "c241" /\ cur = c /\ is_connected
        /\ _metrics.connect_attempts = 1 /\ _metrics.last_connect_time = 1
        /\ \E l \in ListenerIds : listeners[l].st = "recv"

\* C13: disconnect() called on a client that is already disconnected (it
\* never connected, or a disconnect() has torn it down) runs from its first
\* statement to its return without suspending, raises nothing, closes nothing
\* and cancels nothing: the flags, the handles, the resources, the listener
\* tasks and the metrics stay as a single disconnect() left them.  And no
\* disconnect() ever closes a socket, session or connector that is closed.
C13_Idempotent ==
    [][/\ \A c \in Callers :
          hist.torn[c] =>
             /\ pc[c] \in {"d299", "d311", "d319", "d327", "ret_disconnect"}
             /\ cur' = (IF pc[c] = "ret_disconnect" THEN NoTask ELSE c)
             /\ pc[c] = "d299" => pc'[c] = "d311"
             /\ pc[c] = "d311" => pc'[c] = "d319"
             /\ pc[c] = "d319" => pc'[c] = "d327"
             /\ pc[c] = "d327" => pc'[c] = "ret_disconnect"
             /\ AlreadyDisconnected /\ AlreadyDisconnected'
             /\ UNCHANGED <<clientVars, objVars, _metrics, listeners, _reconnect_lock>>
       /\ \A c \in Callers :
             /\ (pc[c] = "d311" /\ pc'[c] = "d313") => sockets[_websocket] # "closed"
             /\ (pc[c] = "d319" /\ pc'[c] = "d321") => sessions[_session] # "closed"
             /\ (pc[c] = "d327" /\ pc'[c] = "d329") => connectors[_connector] # "closed"]_vars

C13_Witness ==
    \E c \in Callers :
        /\ pc[c] = "ret_disconnect" /\ hist.torn[c]
        /\ hist.lastOp = "disconnect"
        /\ sockets[1] = "closed" /\ sessions[1] = "closed" /\ connectors[1] = "closed"

\* C14 (as stated, the part it singles out): whenever no task is in the
\* middle of a step and the status flag is Connected, the socket handle and
\* the session handle are present and neither object is closed.
C14_AsStated ==
    (Quiescent /\ _is_connected) =>
        /\ _websocket # None /\ sockets[_websocket] # "closed"
        /\ _session # None /\ sessions[_session] # "closed"

\* C15 (as stated): once a disconnect() has returned with the client
\* disconnected and no caller has called connect() since, the client is never
\* connected again: a reconnection cycle that was scheduled or started before
\* or during that disconnect() does not reconnect it.
C15_AsStated == hist.down => ~_is_connected

\* C16 (as stated): while a reconnection attempt has its handshake in flight,
\* the previous connection is torn down: every socket an earlier connect()
\* opened is closed.
C16_AsStated ==
    \A t \in Tasks :
        (pc[t] = "c254" /\ attempt[t] > 0) =>
            \A s \in SocketIds : sockets[s] \in {"unborn", "closed"}

\* A listener task that has been created and has not ended.
Alive(l) == listeners[l].st \in {"created", "l103", "recv", "l148"}

\* C17 (as stated): at most one listener task is alive.
C17_AsStated == Cardinality({l \in ListenerIds : Alive(l)}) <= 1

\* The reconnection tasks created by a step.
Scheduled == {r \in ReconnTasks : pc[r] = "unborn" /\ pc'[r] = "r_start"}

\* C18 (as stated): when a listener leaves its loop because disconnect()
\* cancelled it, no coordinator invocation is scheduled; when it leaves for
\* another reason with the status Connected, the status becomes Disconnected
\* and exactly one invocation is scheduled.
C18_AsStated ==
    [][\A l \in ListenerIds :
          (listeners[l].st = "l148" /\ listeners'[l].st = "done") =>
              IF listeners[l].cancel
              THEN Scheduled = {}
              ELSE _is_connected => (~_is_connected' /\ Cardinality(Scheduled) = 1)]_vars

\* The client has lost a connection to the remote end and has been left
\* alone: it is disconnected, no task of it is running, waiting or scheduled
\* (no listener, no connect(), no coordinator invocation), and no
\* reconnection cycle has run at all, so none has exhausted its attempts.
Abandoned ==
    /\ hist.drops > 0 /\ ~_is_connected /\ ~_is_connecting
    /\ cur = NoTask
    /\ \A c \in Callers : pc[c] = "idle"
    /\ \A r \in ReconnTasks : pc[r] \in {"unborn", "done"}
    /\ \A l \in ListenerIds : ~Alive(l)
    /\ _metrics.reconnect_count = 0

\* C19 (as stated): when the callers never call disconnect(), the client is
\* never left disconnected with no reconnection cycle running or scheduled
\* and none that has exhausted its attempts.
C19_AsStated == ~Abandoned

\* C20: the Connecting flag is set exactly while an attempt has its handshake
\* in flight, so it is clear as soon as the attempt has finished, by
\* returning or by raising, and a caller waiting on the flag can go on; and
\* an attempt that finishes by raising leaves the status Disconnected and has
\* started no listener task and installed no socket.
C20_FlagCleared ==
    [][/\ _is_connecting' <=> \E t \in Tasks : pc'[t] = "c254"
       /\ \A t \in Tasks :
             (pc[t] = "c254" /\ pc'[t] # "c254") =>
                 /\ ~_is_connecting'
                 /\ pc'[t] \in {ConnectReturnLabel(t), ConnectRaiseLabel(t)}
                 /\ pc'[t] = ConnectRaiseLabel(t)
                    => /\ ~_is_connected /\ ~_is_connected'
                       /\ UNCHANGED <<listeners, _task, _websocket, sockets>>]_vars

C20_Witness ==
    \E t, u \in Tasks :
        /\ pc[t] = "raise_connect" /\ cur = t
        /\ pc[u] = "c235"
        /\ ~_is_connecting /\ ~_is_connected

\* The attempt budget the client was built with.
Budget == hist.scenario.max_reconnect_attempts

\* C21: a reconnection cycle makes at most max_reconnect_attempts attempts.
\* After an attempt it ends, releasing the lock, if the client is connected;
\* otherwise, whether connect() returned or raised, it goes to the next
\* attempt while the budget lasts, and after the last one it returns to its
\* caller without raising, with the client disconnected and no further
\* coordinator invocation scheduled.
C21_CycleBounded ==
    [][\A t \in Tasks :
          /\ attempt'[t] <= Budget /\ Len(hist'.coord[t].delays) <= Budget
          /\ (pc[t] = "r176" /\ _is_connected)
             => /\ pc'[t] = CoordReturnLabel(t) /\ attempt'[t] = 0
                /\ _reconnect_lock'.holder = NoTask
          /\ (pc[t] = "r180" \/ (pc[t] = "r176" /\ ~_is_connected))
             => IF attempt[t] < Budget
                THEN /\ pc'[t] = "r173" /\ attempt'[t] = attempt[t] + 1
                     /\ _reconnect_lock'.holder = t
                ELSE /\ pc'[t] = CoordReturnLabel(t) /\ attempt'[t] = 0
                     /\ _reconnect_lock'.holder = NoTask
                     /\ ~_is_connected' /\ ~_is_connecting'
                     /\ Scheduled = {}]_vars

C21_Witness ==
    \E t \in ReconnTasks :
        /\ pc[t] = "done" /\ hist.coord[t].ran
        /\ Len(hist.coord[t].delays) = Budget
        /\ _metrics.connect_attempts = 1 + Budget
        /\ sockets[2] = "unborn" /\ ~_is_connected

\* C22: a data frame that fails to decode does not end the listener: the
\* listener goes back to the head of its loop, the status flag is unchanged
\* and no coordinator invocation is scheduled.  A handler that raises does
\* not either: the error stays in the dispatch task, and the listeners, the
\* status flag and every other task are left as they were.
C22_ListenerSurvives ==
    [][/\ (Len(frames') = Len(frames) + 1 /\ frames'[Len(frames')].kind \in DataKinds)
          => /\ \E l \in ListenerIds :
                   /\ listeners[l].st = "recv" /\ listeners'[l].st = "l103"
                   /\ cur' = LTask(l)
             /\ UNCHANGED <<clientVars, objVars, pc>>
       /\ \A f \in DOMAIN frames :
             (frames[f].st = "pending" /\ frames'[f].st # "pending")
             => /\ frames'[f].st \in {"ok", "caught"}
                /\ UNCHANGED <<clientVars, objVars, pc, listeners, cur>>]_vars

C22_Witness ==
    /\ Len(frames) = 2
    /\ frames[1].kind = "text_bad"
    /\ frames[2].kind = "text_ok" /\ frames[2].st = "caught"
    /\ is_connected
    /\ \E l \in ListenerIds : listeners[l].st = "recv" /\ ~listeners[l].cancel
    /\ \A r \in ReconnTasks : pc[r] = "unborn"

\* C23: one send() call invokes the reconnection coordinator at most 2
\* times, transmits the payload at most 3 times (the first transmission and
\* at most 2 retransmissions) and causes at most 2 * max_reconnect_attempts
\* handshake attempts; and a send() whose transmission did not meet a
\* connection reset never enters the retry loop: it invokes no coordinator,
\* retransmits nothing and causes no handshake.
C23_RetryBudget ==
    \A c \in Callers :
        LET snd == hist.send[c]
        IN  /\ snd.coord <= 2
            /\ snd.tx <= 1 + 2
            /\ snd.handshakes <= 2 * Budget
            /\ ~snd.firstReset =>
                  /\ snd.coord = 0 /\ snd.tx <= 1 /\ snd.handshakes = 0
                  /\ pc[c] \notin {"r162", "r162w", "r163", "r173", "r176", "r180",
                                   "s218", "s219", "s220"}

C23_Witness ==
    \E c \in Callers :
        /\ pc[c] = "ret_send_false" /\ hist.send[c].firstReset
        /\ hist.send[c].coord = 2
        /\ hist.send[c].handshakes = 2 * Budget

====
